---- MODULE Spec2Model ----
(***************************************************************************)
(* Data-state engine of the inventory spreadsheet editor: AppLogic         *)
(* (src/app_logic.py) together with the presentation-layer handlers of     *)
(* MainWindow (src/main_window.py) that drive it.                          *)
(*                                                                         *)
(* A DataFrame is a record [columns, index, data]: the column labels, the  *)
(* row labels and the rows (each a sequence of cells, one per column).     *)
(* A cell is a record [k, n, s]: kind, number, text.  Texts are sequences  *)
(* of one-character strings so that str.lower, str.strip, str.contains and *)
(* string comparison can be computed as pandas computes them.              *)
(*                                                                         *)
(* pandas behaviour is modelled for pandas 1.3 .. 2.x (ExcelWriter's       *)
(* if_sheet_exists needs 1.3; read_json of a literal string needs < 3).    *)
(***************************************************************************)
EXTENDS Integers, Sequences, FiniteSets, TLC

(***************************************************************************)
(* Cells                                                                   *)
(***************************************************************************)
INT(n) == [k |-> "int", n |-> n, s |-> <<>>]
FLT(n) == [k |-> "float", n |-> n, s |-> <<>>]      \* the float n.0
STR(s) == [k |-> "str", n |-> 0, s |-> s]
NaN == [k |-> "nan", n |-> 0, s |-> <<>>]           \* numpy.nan
NoneCell == [k |-> "none", n |-> 0, s |-> <<>>]     \* Python None
JNull == [k |-> "null", n |-> 0, s |-> <<>>]        \* JSON null

IsMissing(c) == c.k \in {"nan", "none"}

(***************************************************************************)
(* Texts                                                                   *)
(***************************************************************************)
Digits == <<"0", "1", "2", "3", "4", "5", "6", "7", "8", "9">>

\* Code-point order of the characters the model uses.
CharOrder ==
    <<" ", ".", "0", "1", "2", "3", "4", "5", "6", "7", "8", "9",
      "A", "B", "N", "X", "a", "b", "e", "n", "o", "x">>

Rank(c) == CHOOSE i \in 1..Len(CharOrder) : CharOrder[i] = c

IsDigit(c) == \E i \in 1..Len(Digits) : Digits[i] = c

DigitVal(c) == (CHOOSE i \in 1..Len(Digits) : Digits[i] = c) - 1

LowerChar(c) ==
    CASE c = "A" -> "a"
      [] c = "B" -> "b"
      [] c = "N" -> "n"
      [] c = "X" -> "x"
      [] OTHER -> c

\* str.lower()
Lower(s) == [i \in 1..Len(s) |-> LowerChar(s[i])]

\* str.strip()
Strip(s) ==
    LET nb == {i \in 1..Len(s) : s[i] # " "}
    IN  IF nb = {} THEN <<>>
        ELSE LET lo == CHOOSE i \in nb : \A j \in nb : i <= j
                 hi == CHOOSE i \in nb : \A j \in nb : i >= j
             IN  SubSeq(s, lo, hi)

\* Python's `pat in s` for plain characters
Contains(s, pat) ==
    \E i \in 0..(Len(s) - Len(pat)) : SubSeq(s, i + 1, i + Len(pat)) = pat

\* Python's s < t on str (lexicographic by code point)
RECURSIVE StrLess(_, _)
StrLess(s, t) ==
    IF t = <<>> THEN FALSE
    ELSE IF s = <<>> THEN TRUE
    ELSE IF s[1] # t[1] THEN Rank(s[1]) < Rank(t[1])
    ELSE StrLess(Tail(s), Tail(t))

\* str(n) of a non-negative int
RECURSIVE IntToStr(_)
IntToStr(n) ==
    IF n < 10 THEN <<Digits[n + 1]>>
    ELSE IntToStr(n \div 10) \o <<Digits[(n % 10) + 1]>>

\* int(s) of a text of decimal digits
RECURSIVE StrToInt(_)
StrToInt(s) ==
    IF s = <<>> THEN 0
    ELSE 10 * StrToInt(SubSeq(s, 1, Len(s) - 1)) + DigitVal(s[Len(s)])

AllDigits(s) == Len(s) > 0 /\ \A i \in 1..Len(s) : IsDigit(s[i])

\* float(s) succeeds.  Of the spellings float() accepts, the texts of the
\* model use decimal digits (with surrounding blanks) and "nan".
IsFloatStr(s) == AllDigits(Strip(s)) \/ Lower(Strip(s)) = <<"n", "a", "n">>

\* str(value) as Series.astype(str) and str() compute it
astype_str(c) ==
    CASE c.k = "int" -> IntToStr(c.n)
      [] c.k = "float" -> IntToStr(c.n) \o <<".", "0">>
      [] c.k = "str" -> c.s
      [] c.k = "nan" -> <<"n", "a", "n">>
      [] c.k = "none" -> <<"N", "o", "n", "e">>

(***************************************************************************)
(* DataFrames                                                              *)
(***************************************************************************)
\* pd.DataFrame()
EmptyFrame == [columns |-> <<>>, index |-> <<>>, data |-> <<>>]

NRows(d) == Len(d.index)
NCols(d) == Len(d.columns)

\* DataFrame.empty
empty(d) == NRows(d) = 0 \/ NCols(d) = 0

\* `name in d.columns`
HasColumn(d, name) == \E j \in 1..NCols(d) : d.columns[j] = name

ColPos(d, name) == CHOOSE j \in 1..NCols(d) : d.columns[j] = name

\* d[name] as the sequence of its cells
Column(d, j) == [i \in 1..NRows(d) |-> d.data[i][j]]

\* dtype of a column: int64, float64 or object
dtype(col) ==
    IF \A i \in 1..Len(col) : col[i].k = "int" THEN "int64"
    ELSE IF \A i \in 1..Len(col) : col[i].k \in {"int", "float", "nan"}
         THEN "float64"
         ELSE "object"

(***************************************************************************)
(* History tokens: DataFrame.to_json(orient='split') and pd.read_json      *)
(***************************************************************************)
\* One cell as ujson writes it: NaN and None both become null.
JsonOf(c) == IF IsMissing(c) THEN JNull ELSE c

to_json(d) ==
    [columns |-> d.columns,
     index |-> d.index,
     data |-> [i \in 1..NRows(d) |-> [j \in 1..NCols(d) |-> JsonOf(d.data[i][j])]]]

\* float(v) of a parsed JSON value: [nan, n]
FloatOf(v) ==
    CASE v.k \in {"int", "float"} -> [nan |-> FALSE, n |-> v.n]
      [] v.k = "null" -> [nan |-> TRUE, n |-> 0]
      [] v.k = "str" ->
            IF AllDigits(Strip(v.s)) THEN [nan |-> FALSE, n |-> StrToInt(Strip(v.s))]
            ELSE [nan |-> TRUE, n |-> 0]

\* read_json's dtype inference on one parsed column (dtype=True):
\* an object column is cast to float64 when every value converts; a float
\* column whose values are all whole numbers is then cast to int64.
try_convert_data(col) ==
    IF Len(col) = 0 THEN col
    ELSE IF \A i \in 1..Len(col) :
                col[i].k \in {"int", "float", "null"}
                \/ (col[i].k = "str" /\ IsFloatStr(col[i].s))
    THEN IF \E i \in 1..Len(col) : FloatOf(col[i]).nan
         THEN [i \in 1..Len(col) |->
                 IF FloatOf(col[i]).nan THEN NaN ELSE FLT(FloatOf(col[i]).n)]
         ELSE [i \in 1..Len(col) |-> INT(FloatOf(col[i]).n)]
    ELSE [i \in 1..Len(col) |-> IF col[i].k = "null" THEN NoneCell ELSE col[i]]

read_json(tok) ==
    LET conv == [j \in 1..Len(tok.columns) |->
                    try_convert_data([i \in 1..Len(tok.index) |-> tok.data[i][j]])]
    IN  [columns |-> tok.columns,
         index |-> tok.index,
         data |-> [i \in 1..Len(tok.index) |->
                     [j \in 1..Len(tok.columns) |-> conv[j][i]]]]

(***************************************************************************)
(* View criteria.  A column criterion and the sort mode are strings, with  *)
(* NONE for Python's None; the filter text is a text, with NoText for an   *)
(* omitted argument.                                                       *)
(***************************************************************************)
NONE == "<None>"
NoText == <<"<None>">>

\* Python truthiness of an optional string
Truthy(x) == x # NONE /\ x # ""

(***************************************************************************)
(* AppLogic.apply_filters_and_sort: the filter step                        *)
(***************************************************************************)
\* Series.str.contains(search_term, na=False) on the lower-cased str form.
\* The search texts of the model hold no regular-expression metacharacter.
CellMatches(c, search_term) == Contains(Lower(astype_str(c)), search_term)

\* The row Series DataFrame.apply(axis=1) hands to the lambda: a frame of
\* int64 and float64 columns only yields float64 rows.
RowSeries(d, i) ==
    IF (\A j \in 1..NCols(d) : dtype(Column(d, j)) # "object")
       /\ (\E j \in 1..NCols(d) : dtype(Column(d, j)) = "float64")
    THEN [j \in 1..NCols(d) |->
            IF d.data[i][j].k = "int" THEN FLT(d.data[i][j].n) ELSE d.data[i][j]]
    ELSE d.data[i]

\* RowPasses without the strip() of the filter text
RowPasses_no_strip(d, i, filter_col, filter_text) ==
    IF filter_text = <<>> THEN TRUE
    ELSE LET search_term == Lower(filter_text)
         IN  IF search_term = <<>> THEN TRUE
             ELSE IF Truthy(filter_col) /\ HasColumn(d, filter_col)
                  THEN CellMatches(d.data[i][ColPos(d, filter_col)], search_term)
                  ELSE \E j \in 1..NCols(d) :
                          CellMatches(RowSeries(d, i)[j], search_term)

\* Does row i pass the filter?
RowPasses(d, i, filter_col, filter_text) ==
    IF filter_text = <<>> THEN TRUE
    ELSE LET search_term == Lower(Strip(filter_text))
         IN  IF search_term = <<>> THEN TRUE
             ELSE IF Truthy(filter_col) /\ HasColumn(d, filter_col)
                  THEN CellMatches(d.data[i][ColPos(d, filter_col)], search_term)
                  ELSE \E j \in 1..NCols(d) :
                          CellMatches(RowSeries(d, i)[j], search_term)

\* The positions, from i on, of the rows that pass the filter
RECURSIVE SelectRows(_, _, _, _)
SelectRows(d, i, filter_col, filter_text) ==
    IF i > NRows(d) THEN <<>>
    ELSE (IF RowPasses(d, i, filter_col, filter_text) THEN <<i>> ELSE <<>>)
         \o SelectRows(d, i + 1, filter_col, filter_text)

\* temp_df after the filter step
FilterStep(d, filter_col, filter_text) ==
    LET keep == SelectRows(d, 1, filter_col, filter_text)
    IN  [columns |-> d.columns,
         index |-> [r \in 1..Len(keep) |-> d.index[keep[r]]],
         data |-> [r \in 1..Len(keep) |-> d.data[keep[r]]]]

(***************************************************************************)
(* AppLogic.apply_filters_and_sort: the sort step                          *)
(***************************************************************************)
\* pd.to_numeric(errors='coerce') on one value: [nan, n, whole], whole
\* telling whether the value stays an integer.
NumericOf(c) ==
    CASE c.k = "int" -> [nan |-> FALSE, n |-> c.n, whole |-> TRUE]
      [] c.k = "float" -> [nan |-> FALSE, n |-> c.n, whole |-> FALSE]
      [] c.k = "str" ->
            IF AllDigits(Strip(c.s))
            THEN [nan |-> FALSE, n |-> StrToInt(Strip(c.s)), whole |-> TRUE]
            ELSE [nan |-> TRUE, n |-> 0, whole |-> FALSE]
      [] OTHER -> [nan |-> TRUE, n |-> 0, whole |-> FALSE]

\* pd.to_numeric(column, errors='coerce'): int64 when every value is an
\* integer, float64 otherwise.
to_numeric(col) ==
    IF \A i \in 1..Len(col) : NumericOf(col[i]).whole
    THEN [i \in 1..Len(col) |-> INT(NumericOf(col[i]).n)]
    ELSE [i \in 1..Len(col) |->
            IF NumericOf(col[i]).nan THEN NaN ELSE FLT(NumericOf(col[i]).n)]

\* ascending set for 'az' and 'num_asc' only
ascending_named_modes(sort_type) == sort_type \in {"az", "num_asc"}

ascending(sort_type) == sort_type \notin {"za", "num_desc"}
\* is_numeric_sort set for 'num_asc' only
is_numeric_sort_asc_only(sort_type) == sort_type = "num_asc"

is_numeric_sort(sort_type) == sort_type \in {"num_asc", "num_desc"}

\* The sort key of a cell: [nan, n, s].  The text key is the lower-cased str
\* form, which is never missing.
SortKey(c, sort_type) ==
    IF is_numeric_sort(sort_type)
    THEN [nan |-> IsMissing(c), n |-> c.n, s |-> <<>>]
    ELSE [nan |-> FALSE, n |-> 0, s |-> Lower(astype_str(c))]

KeyLess(a, b) == a.n < b.n \/ (a.n = b.n /\ StrLess(a.s, b.s))

Perms(n) ==
    {p \in [1..n -> 1..n] : \A i, j \in 1..n : p[i] = p[j] => i = j}

\* The row orders sort_values(by, ascending, na_position='last') can give
\* for the keys: present keys in order, missing keys last in their original
\* order.  sort_values runs with its default kind='quicksort', which pandas
\* documents as not stable: rows with equal keys come in either order.
SortOrders(keys, asc) ==
    LET n == Len(keys)
        m == Cardinality({i \in 1..n : ~keys[i].nan})
    IN  {p \in Perms(n) :
            /\ \A i \in 1..n : keys[p[i]].nan <=> i > m
            /\ \A i, j \in (m + 1)..n : i < j => p[i] < p[j]
            /\ \A i \in 1..(m - 1) :
                  IF asc THEN ~KeyLess(keys[p[i + 1]], keys[p[i]])
                         ELSE ~KeyLess(keys[p[i]], keys[p[i + 1]])}

\* The frames the sort step can give for temp_df
SortStep(t, sort_col, sort_type) ==
    IF ~(Truthy(sort_col) /\ HasColumn(t, sort_col)) THEN {t}
    ELSE LET c == ColPos(t, sort_col)
             conv == IF is_numeric_sort(sort_type)
                     THEN to_numeric(Column(t, c))
                     ELSE Column(t, c)
             rows == [i \in 1..NRows(t) |-> [t.data[i] EXCEPT ![c] = conv[i]]]
             keys == [i \in 1..NRows(t) |-> SortKey(conv[i], sort_type)]
         IN  {[columns |-> t.columns,
               index |-> [i \in 1..NRows(t) |-> t.index[p[i]]],
               data |-> [i \in 1..NRows(t) |-> rows[p[i]]]]
                 : p \in SortOrders(keys, ascending(sort_type))}

\* The views apply_filters_and_sort can compute for a dataset and criteria
Views(d, filter_col, filter_text, sort_col, sort_type) ==
    IF empty(d)
    THEN {[columns |-> d.columns, index |-> <<>>, data |-> <<>>]}
    ELSE SortStep(FilterStep(d, filter_col, filter_text), sort_col, sort_type)

(***************************************************************************)
(* The engine state.  An engine operation is an operator on the record     *)
(*   [df, view, undo_stack, redo_stack,                                    *)
(*    filter_col, filter_text, sort_col, sort_type]                        *)
(* giving the set of states (and return values) the call can end in.       *)
(***************************************************************************)
VARIABLES
    df,                  \* AppLogic.df, the canonical dataset
    current_view_df,     \* AppLogic._current_view_df
    undo_stack,          \* AppLogic.undo_stack, tokens, most recent last
    redo_stack,          \* AppLogic.redo_stack
    active_filter_col,   \* AppLogic._active_filter_col
    active_filter_text,  \* AppLogic._active_filter_text
    active_sort_col,     \* AppLogic._active_sort_col
    active_sort_type,    \* AppLogic._active_sort_type
    op,                  \* the operation that ran last
    ret,                 \* what it returned: "True", "False" or "None"
    loaded,              \* load_new_sheet has run
    edit_pre,            \* df before the cell edit that ran last
    rt,                  \* the run of undo() and redo() calls in progress
    pre,                 \* the lengths of both stacks before the last operation
    clean_pushes,        \* push_state() calls since df last changed (up to 2)
    call,                \* the arguments of the last engine call and whether
                         \* it found a filter and a sort set (followed where
                         \* the view is studied)
    settings,            \* MainWindow.settings['recent_excel_files'] and the
                         \* list app_settings.json holds
    to_json_raises,      \* DataFrame.to_json raises when called now
    edit,                \* the row, column and text of the last cell edit
    paths                \* the files opened so far (followed where the
                         \* recent-files list is studied)

engine == <<df, current_view_df, undo_stack, redo_stack, active_filter_col,
            active_filter_text, active_sort_col, active_sort_type>>

vars == <<df, current_view_df, undo_stack, redo_stack, active_filter_col,
          active_filter_text, active_sort_col, active_sort_type,
          op, ret, loaded, edit_pre, rt, pre, clean_pushes, call,
          settings, to_json_raises, edit, paths>>

\* What the operations on one sheet leave alone
window == <<settings, to_json_raises, edit, paths>>

\* AppLogic.max_undo_steps
max_undo_steps == 50

Last(stack) == stack[Len(stack)]
Front(stack) == SubSeq(stack, 1, Len(stack) - 1)

Self ==
    [df |-> df, view |-> current_view_df,
     undo_stack |-> undo_stack, redo_stack |-> redo_stack,
     filter_col |-> active_filter_col, filter_text |-> active_filter_text,
     sort_col |-> active_sort_col, sort_type |-> active_sort_type]

\* AppLogic.__init__
NewAppLogic ==
    [df |-> EmptyFrame, view |-> EmptyFrame,
     undo_stack |-> <<>>, redo_stack |-> <<>>,
     filter_col |-> NONE, filter_text |-> <<>>,
     sort_col |-> NONE, sort_type |-> NONE]

\* No argument supplied
NoArgs ==
    [filter_col |-> NONE, filter_text |-> NoText, sort_col |-> NONE, sort_type |-> NONE]

\* apply_filters_and_sort with `temp_df = self.df`: while no filter has
\* replaced temp_df, the numeric sort assigns the converted column to df
apply_filters_and_sort_no_copy(s, a) ==
    LET s1 == [s EXCEPT
                 !.filter_col = IF a.filter_col # NONE THEN a.filter_col ELSE @,
                 !.filter_text = IF a.filter_text # NoText THEN a.filter_text ELSE @,
                 !.sort_col = IF a.sort_col # NONE THEN a.sort_col ELSE @,
                 !.sort_type = IF a.sort_type # NONE THEN a.sort_type ELSE @]
        aliased == /\ ~empty(s1.df)
                   /\ Strip(s1.filter_text) = <<>>
                   /\ Truthy(s1.sort_col) /\ HasColumn(s1.df, s1.sort_col)
                   /\ s1.sort_type \in {"num_asc", "num_desc"}
        c == ColPos(s1.df, s1.sort_col)
        conv == to_numeric(Column(s1.df, c))
        assigned == [s1.df EXCEPT !.data =
                        [i \in 1..NRows(s1.df) |-> [s1.df.data[i] EXCEPT ![c] = conv[i]]]]
    IN  {[s1 EXCEPT !.view = v, !.df = IF aliased THEN assigned ELSE @] :
            v \in Views(s1.df, s1.filter_col, s1.filter_text, s1.sort_col, s1.sort_type)}

\* apply_filters_and_sort testing `if filter_col:` for `is not None`, and
\* so for the other three arguments
apply_filters_and_sort_truthy(s, a) ==
    LET s1 == [s EXCEPT
                 !.filter_col = IF Truthy(a.filter_col) THEN a.filter_col ELSE @,
                 !.filter_text = IF a.filter_text \notin {NoText, <<>>}
                                 THEN a.filter_text ELSE @,
                 !.sort_col = IF Truthy(a.sort_col) THEN a.sort_col ELSE @,
                 !.sort_type = IF Truthy(a.sort_type) THEN a.sort_type ELSE @]
    IN  {[s1 EXCEPT !.view = v] :
            v \in Views(s1.df, s1.filter_col, s1.filter_text, s1.sort_col, s1.sort_type)}

\* AppLogic.apply_filters_and_sort
apply_filters_and_sort(s, a) ==
    LET s1 == [s EXCEPT
                 !.filter_col = IF a.filter_col # NONE THEN a.filter_col ELSE @,
                 !.filter_text = IF a.filter_text # NoText THEN a.filter_text ELSE @,
                 !.sort_col = IF a.sort_col # NONE THEN a.sort_col ELSE @,
                 !.sort_type = IF a.sort_type # NONE THEN a.sort_type ELSE @]
    IN  {[s1 EXCEPT !.view = v] :
            v \in Views(s1.df, s1.filter_col, s1.filter_text, s1.sort_col, s1.sort_type)}

\* push_state with pop() for pop(0): the newest entry is dropped
push_state_pops_newest(s) ==
    LET current_df_json == to_json(s.df)
    IN  IF s.undo_stack = <<>> \/ Last(s.undo_stack) # current_df_json
        THEN LET pushed == Append(s.undo_stack, current_df_json)
             IN  [s EXCEPT
                    !.undo_stack = IF Len(pushed) > max_undo_steps
                                   THEN Front(pushed) ELSE pushed,
                    !.redo_stack = <<>>]
        ELSE s

\* push_state without `self.redo_stack = []`
push_state_keeps_redo(s) ==
    LET current_df_json == to_json(s.df)
    IN  IF s.undo_stack = <<>> \/ Last(s.undo_stack) # current_df_json
        THEN LET pushed == Append(s.undo_stack, current_df_json)
             IN  [s EXCEPT
                    !.undo_stack = IF Len(pushed) > max_undo_steps
                                   THEN Tail(pushed) ELSE pushed]
        ELSE s

\* push_state without the comparison with the top of the undo stack
push_state_always_appends(s) ==
    LET pushed == Append(s.undo_stack, to_json(s.df))
    IN  [s EXCEPT
           !.undo_stack = IF Len(pushed) > max_undo_steps THEN Tail(pushed) ELSE pushed,
           !.redo_stack = <<>>]

\* push_state comparing with `self.undo_stack[0]`, the oldest entry
push_state_compares_oldest(s) ==
    IF to_json_raises THEN s
    ELSE LET current_df_json == to_json(s.df)
         IN  IF s.undo_stack = <<>> \/ Head(s.undo_stack) # current_df_json
             THEN LET pushed == Append(s.undo_stack, current_df_json)
                  IN  [s EXCEPT
                         !.undo_stack = IF Len(pushed) > max_undo_steps
                                        THEN Tail(pushed) ELSE pushed,
                         !.redo_stack = <<>>]
             ELSE s

\* push_state with `self.redo_stack = []` ahead of the try block
push_state_clears_redo_first(s) ==
    IF to_json_raises THEN [s EXCEPT !.redo_stack = <<>>]
    ELSE LET current_df_json == to_json(s.df)
         IN  IF s.undo_stack = <<>> \/ Last(s.undo_stack) # current_df_json
             THEN LET pushed == Append(s.undo_stack, current_df_json)
                  IN  [s EXCEPT
                         !.undo_stack = IF Len(pushed) > max_undo_steps
                                        THEN Tail(pushed) ELSE pushed,
                         !.redo_stack = <<>>]
             ELSE s

\* AppLogic.push_state.  When to_json raises, the except branch prints the
\* error and the method returns None with nothing assigned.
push_state(s) ==
    IF to_json_raises THEN s
    ELSE LET current_df_json == to_json(s.df)
         IN  IF s.undo_stack = <<>> \/ Last(s.undo_stack) # current_df_json
             THEN LET pushed == Append(s.undo_stack, current_df_json)
                  IN  [s EXCEPT
                         !.undo_stack = IF Len(pushed) > max_undo_steps
                                        THEN Tail(pushed) ELSE pushed,
                         !.redo_stack = <<>>]
             ELSE s

\* load_new_sheet without the push_state() that seeds the undo stack
load_new_sheet_no_seed(s, dataframe) ==
    apply_filters_and_sort(
        [s EXCEPT !.df = dataframe,
                  !.undo_stack = <<>>, !.redo_stack = <<>>,
                  !.filter_col = NONE, !.filter_text = <<>>,
                  !.sort_col = NONE, !.sort_type = NONE],
        NoArgs)

\* load_new_sheet without `self.undo_stack = []`
load_new_sheet_keeps_undo(s, dataframe) ==
    apply_filters_and_sort(
        push_state([s EXCEPT !.df = dataframe,
                             !.redo_stack = <<>>,
                             !.filter_col = NONE, !.filter_text = <<>>,
                             !.sort_col = NONE, !.sort_type = NONE]),
        NoArgs)

\* load_new_sheet without the four assignments that reset the criteria
load_new_sheet_keeps_criteria(s, dataframe) ==
    apply_filters_and_sort(
        push_state([s EXCEPT !.df = dataframe,
                             !.undo_stack = <<>>, !.redo_stack = <<>>]),
        NoArgs)

\* AppLogic.load_new_sheet
load_new_sheet(s, dataframe) ==
    apply_filters_and_sort(
        push_state([s EXCEPT !.df = dataframe,
                             !.undo_stack = <<>>, !.redo_stack = <<>>,
                             !.filter_col = NONE, !.filter_text = <<>>,
                             !.sort_col = NONE, !.sort_type = NONE]),
        NoArgs)

\* undo restoring the entry it popped instead of the new top
undo_restores_popped(s) ==
    IF Len(s.undo_stack) > 1
    THEN LET current_state == Last(s.undo_stack)
             s1 == [s EXCEPT !.undo_stack = Front(@),
                             !.redo_stack = Append(@, current_state),
                             !.df = read_json(current_state)]
         IN  {[st |-> x, ret |-> "True"] : x \in apply_filters_and_sort(s1, NoArgs)}
    ELSE {[st |-> s, ret |-> "False"]}

\* undo popping before it tests the length
undo_pops_before_check(s) ==
    IF Len(s.undo_stack) > 1
    THEN LET current_state == Last(s.undo_stack)
             popped == Front(s.undo_stack)
             s1 == [s EXCEPT !.undo_stack = popped,
                             !.redo_stack = Append(@, current_state),
                             !.df = read_json(Last(popped))]
         IN  {[st |-> x, ret |-> "True"] : x \in apply_filters_and_sort(s1, NoArgs)}
    ELSE IF Len(s.undo_stack) = 1
         THEN {[st |-> [s EXCEPT !.undo_stack = <<>>,
                                 !.redo_stack = Append(@, Last(s.undo_stack))],
                ret |-> "False"]}
         ELSE {[st |-> s, ret |-> "False"]}

\* undo recomputing the view with reset_filters_and_sort()
undo_resets_criteria(s) ==
    IF Len(s.undo_stack) > 1
    THEN LET current_state == Last(s.undo_stack)
             popped == Front(s.undo_stack)
             s1 == [s EXCEPT !.undo_stack = popped,
                             !.redo_stack = Append(@, current_state),
                             !.df = read_json(Last(popped))]
         IN  {[st |-> x, ret |-> "True"] :
                 x \in apply_filters_and_sort(
                           s1, [filter_col |-> "", filter_text |-> <<>>,
                                sort_col |-> "", sort_type |-> ""])}
    ELSE {[st |-> s, ret |-> "False"]}

\* AppLogic.undo: the [st, ret] it can end with
undo(s) ==
    IF Len(s.undo_stack) > 1
    THEN LET current_state == Last(s.undo_stack)
             popped == Front(s.undo_stack)
             s1 == [s EXCEPT !.undo_stack = popped,
                             !.redo_stack = Append(@, current_state),
                             !.df = read_json(Last(popped))]
         IN  {[st |-> x, ret |-> "True"] : x \in apply_filters_and_sort(s1, NoArgs)}
    ELSE {[st |-> s, ret |-> "False"]}

\* redo without the apply_filters_and_sort() that recomputes the view
redo_stale_view(s) ==
    IF s.redo_stack # <<>>
    THEN {[st |-> [s EXCEPT !.redo_stack = Front(@),
                            !.undo_stack = Append(@, Last(s.redo_stack)),
                            !.df = read_json(Last(s.redo_stack))],
           ret |-> "True"]}
    ELSE {[st |-> s, ret |-> "False"]}

\* redo reading `self.redo_stack[-1]` without popping it
redo_keeps_entry(s) ==
    IF s.redo_stack # <<>>
    THEN LET state_to_restore == Last(s.redo_stack)
             s1 == [s EXCEPT !.undo_stack = Append(@, state_to_restore),
                             !.df = read_json(state_to_restore)]
         IN  {[st |-> x, ret |-> "True"] : x \in apply_filters_and_sort(s1, NoArgs)}
    ELSE {[st |-> s, ret |-> "False"]}

\* AppLogic.redo: the [st, ret] it can end with
redo(s) ==
    IF s.redo_stack # <<>>
    THEN LET state_to_restore == Last(s.redo_stack)
             s1 == [s EXCEPT !.redo_stack = Front(@),
                             !.undo_stack = Append(@, state_to_restore),
                             !.df = read_json(state_to_restore)]
         IN  {[st |-> x, ret |-> "True"] : x \in apply_filters_and_sort(s1, NoArgs)}
    ELSE {[st |-> s, ret |-> "False"]}

\* The arguments of reset_filters_and_sort
EmptyArgs ==
    [filter_col |-> "", filter_text |-> <<>>, sort_col |-> "", sort_type |-> ""]

\* reset_filters_and_sort passing no sort_col
reset_filters_and_sort_keeps_sort(s) ==
    apply_filters_and_sort(s, [EmptyArgs EXCEPT !.sort_col = NONE])

\* AppLogic.reset_filters_and_sort
reset_filters_and_sort(s) == apply_filters_and_sort(s, EmptyArgs)

(***************************************************************************)
(* MainWindow handlers.  Only their calls into the engine are modelled.    *)
(* main_window.py names pd without importing pandas, so _update_table_view *)
(* and clear_all_data raise NameError; in the handlers below that happens  *)
(* after the engine call has returned and leaves the engine as the call    *)
(* left it.                                                                *)
(***************************************************************************)
\* d.loc[label, column_name] = value; a label the index lacks appends a row.
loc_set(d, label, column_name, value) ==
    LET c == ColPos(d, column_name)
    IN  IF \E i \in 1..NRows(d) : d.index[i] = label
        THEN [d EXCEPT !.data =
                 [i \in 1..NRows(d) |->
                     IF d.index[i] = label THEN [d.data[i] EXCEPT ![c] = value]
                     ELSE d.data[i]]]
        ELSE [d EXCEPT !.index = Append(@, label),
                       !.data = Append(@, [j \in 1..NCols(d) |->
                                              IF j = c THEN value ELSE NaN])]

\* _handle_cell_changed with push_state() ahead of the try block
handle_cell_changed_push_first(s, row, column, new_text) ==
    IF row >= NRows(s.view) \/ column >= NCols(s.df) THEN push_state(s)
    ELSE LET original_index == s.view.index[row + 1]
             column_name == s.df.columns[column + 1]
             s1 == push_state(s)
         IN  [s1 EXCEPT !.df = loc_set(@, original_index, column_name, STR(new_text))]

\* _handle_cell_changed with `original_index = row`: the view position is
\* taken for the row label
handle_cell_changed_by_position(s, row, column, new_text) ==
    IF row >= NRows(s.view) \/ column >= NCols(s.df) THEN s
    ELSE LET original_index == row
             column_name == s.df.columns[column + 1]
             s1 == push_state(s)
         IN  [s1 EXCEPT !.df = loc_set(@, original_index, column_name, STR(new_text))]

\* MainWindow._handle_cell_changed(row, column) with the typed text; row and
\* column count from 0.  An IndexError drops the edit.
handle_cell_changed(s, row, column, new_text) ==
    IF row >= NRows(s.view) \/ column >= NCols(s.df) THEN s
    ELSE LET original_index == s.view.index[row + 1]
             column_name == s.df.columns[column + 1]
             s1 == push_state(s)
         IN  [s1 EXCEPT !.df = loc_set(@, original_index, column_name, STR(new_text))]

\* clear_all_data in a module that imports pandas as pd: the engine is
\* loaded with an empty frame
clear_all_data_pandas_imported(s) ==
    {[st |-> x, ret |-> "None"] : x \in load_new_sheet(s, EmptyFrame)}

\* MainWindow.clear_all_data: the [st, ret] it ends with.  Its first
\* statement evaluates pd.DataFrame() for the argument of load_new_sheet;
\* pd is not a name of main_window.py, so NameError is raised before
\* load_new_sheet is entered.
clear_all_data(s) == {[st |-> s, ret |-> "NameError"]}

\* The steps of a load at which the storage layer fails: get_sheet_names
\* raises (file not found, locked, unreadable), it returns no sheet, or
\* load_sheet raises (sheet not found, locked, unreadable).
FailingSteps == {"get_sheet_names", "no_sheets", "load_sheet"}

\* _load_excel_file and _load_current_sheet_data from the failing step on:
\* the [st, ret] they end with.  A NameError out of the handler of
\* _load_current_sheet_data is caught by the handler of _load_excel_file,
\* which calls clear_all_data again.
load_failure(s, step) ==
    CASE step = "no_sheets" -> {[st |-> s, ret |-> "None"]}
      [] step = "get_sheet_names" -> clear_all_data(s)
      [] step = "load_sheet" ->
            UNION {IF r.ret = "NameError" THEN clear_all_data(r.st) ELSE {r} :
                      r \in clear_all_data(s)}

\* The length `recent[:10]` cuts the list of recent files to
RecentCap == 10

\* list.remove(x): the list without its first x
Remove(list, x) ==
    LET at == {i \in 1..Len(list) : list[i] = x}
    IN  IF at = {} THEN list
        ELSE LET first == CHOOSE i \in at : \A j \in at : i <= j
             IN  SubSeq(list, 1, first - 1) \o SubSeq(list, first + 1, Len(list))

\* MainWindow._save_settings on the settings st: app_settings.json holds the
\* list when the file could be written; a failed write shows a warning.
save_settings(st, written) ==
    IF written THEN [st EXCEPT !.file = st.recent_excel_files] ELSE st

\* _update_recent_files without `if file_path in recent: recent.remove(...)`
update_recent_files_no_remove(st, file_path, written) ==
    LET recent == <<file_path>> \o st.recent_excel_files
    IN  save_settings(
            [st EXCEPT !.recent_excel_files =
                 SubSeq(recent, 1, IF Len(recent) < RecentCap THEN Len(recent) ELSE RecentCap)],
            written)

\* MainWindow._update_recent_files(file_path)
update_recent_files(st, file_path, written) ==
    LET recent == <<file_path>> \o Remove(st.recent_excel_files, file_path)
    IN  save_settings(
            [st EXCEPT !.recent_excel_files =
                 SubSeq(recent, 1, IF Len(recent) < RecentCap THEN Len(recent) ELSE RecentCap)],
            written)

\* _handle_save with push_state() ahead of excel_handler.save_sheet
handle_save_push_first(s, written) ==
    IF empty(s.df) THEN [st |-> s, ret |-> "False"]
    ELSE IF written THEN [st |-> push_state(s), ret |-> "True"]
    ELSE [st |-> push_state(s), ret |-> "False"]

\* MainWindow._handle_save: the [st, ret] it ends with, written telling
\* whether excel_handler.save_sheet succeeded.  current_sheet is empty only
\* while df is empty.
handle_save(s, written) ==
    IF empty(s.df) THEN [st |-> s, ret |-> "False"]
    ELSE IF written THEN [st |-> push_state(s), ret |-> "True"]
    ELSE [st |-> s, ret |-> "False"]

(***************************************************************************)
(* Inputs                                                                  *)
(***************************************************************************)
\* Sheets excel_handler.load_sheet can return (read_excel gives a RangeIndex,
\* int64 for whole numbers, float64 with NaN for numbers with blanks, object
\* for text, NaN for a blank text cell).
SheetAB ==
    [columns |-> <<"A", "B">>, index |-> <<0, 1>>,
     data |-> << <<INT(2), STR(<<"b">>)>>,
                 <<INT(10), NaN>> >>]

SheetOne ==
    [columns |-> <<"A">>, index |-> <<0>>, data |-> << <<STR(<<"a">>)>> >>]

Sheets == {EmptyFrame, SheetAB, SheetOne}

\* Texts typed into a cell
EditTexts == {<<"7">>, <<"b">>}

\* What FilterDialog.apply_and_accept can hand over: a column or "" for
\* each column choice, the stripped filter text, one of the four sort modes.
DialogChoices ==
    {[filter_col |-> "", filter_text |-> <<>>, sort_col |-> "", sort_type |-> "az"],
     [filter_col |-> "A", filter_text |-> <<"7">>, sort_col |-> "A", sort_type |-> "num_desc"]}

\* Edits are explored while the undo stack is shorter than this.
MaxDepth == 2

\* Runs of undo() calls are followed up to this length.
MaxRun == 2

(***************************************************************************)
(* Actions                                                                 *)
(***************************************************************************)
RtNone == [df |-> EmptyFrame, nu |-> 0, nr |-> 0]

Lengths == [nu |-> Len(undo_stack), nr |-> Len(redo_stack)]

\* The four criteria as a record
Criteria ==
    [filter_col |-> active_filter_col, filter_text |-> active_filter_text,
     sort_col |-> active_sort_col, sort_type |-> active_sort_type]

\* A filter text and a sort column are set
Active == active_filter_text # <<>> /\ Truthy(active_sort_col)

NoCall == [args |-> NoArgs, was |-> FALSE]

\* MainWindow._load_settings without an app_settings.json
NoSettings == [recent_excel_files |-> <<>>, file |-> <<>>]

NoEdit == [row |-> 0, column |-> 0, text |-> <<>>]

NoPaths == [seen |-> 0, detours |-> 0, last |-> 0]

SetEngine(s) ==
    /\ df' = s.df
    /\ current_view_df' = s.view
    /\ undo_stack' = s.undo_stack
    /\ redo_stack' = s.redo_stack
    /\ active_filter_col' = s.filter_col
    /\ active_filter_text' = s.filter_text
    /\ active_sort_col' = s.sort_col
    /\ active_sort_type' = s.sort_type

Init ==
    /\ df = NewAppLogic.df
    /\ current_view_df = NewAppLogic.view
    /\ undo_stack = NewAppLogic.undo_stack
    /\ redo_stack = NewAppLogic.redo_stack
    /\ active_filter_col = NewAppLogic.filter_col
    /\ active_filter_text = NewAppLogic.filter_text
    /\ active_sort_col = NewAppLogic.sort_col
    /\ active_sort_type = NewAppLogic.sort_type
    /\ op = "init"
    /\ ret = "None"
    /\ loaded = FALSE
    /\ edit_pre = EmptyFrame
    /\ rt = RtNone
    /\ pre = [nu |-> 0, nr |-> 0]
    /\ clean_pushes = 0
    /\ call = NoCall
    /\ settings = NoSettings
    /\ to_json_raises = FALSE
    /\ edit = NoEdit
    /\ paths = NoPaths

\* MainWindow._load_current_sheet_data with a sheet that loads
Load(sheets) ==
    \E dataframe \in sheets : \E x \in load_new_sheet(Self, dataframe) :
        /\ SetEngine(x)
        /\ op' = "load_new_sheet"
        /\ ret' = "None"
        /\ loaded' = TRUE
        /\ edit_pre' = EmptyFrame
        /\ rt' = RtNone
        /\ pre' = Lengths
        /\ clean_pushes' = 1
        /\ UNCHANGED <<call, window>>

\* The user edits the cell at (row, column) of the table
CellChanged(texts, depth) ==
    /\ Len(undo_stack) < depth
    /\ \E row \in 0..NRows(current_view_df) :
       \E column \in 0..(NCols(current_view_df) - 1) :
       \E new_text \in texts :
          /\ SetEngine(handle_cell_changed(Self, row, column, new_text))
          /\ op' = IF row < NRows(current_view_df) THEN "cell_changed" ELSE "cell_dropped"
          /\ ret' = "None"
          /\ edit_pre' = IF row < NRows(current_view_df) THEN df ELSE EmptyFrame
          /\ rt' = RtNone
          /\ pre' = Lengths
          /\ clean_pushes' = IF row < NRows(current_view_df) THEN 0 ELSE clean_pushes
          /\ UNCHANGED <<loaded, call, window>>

\* MainWindow._handle_undo
Undo ==
    \E r \in undo(Self) :
        /\ SetEngine(r.st)
        /\ op' = "undo"
        /\ ret' = r.ret
        /\ rt' = IF r.ret = "False" THEN RtNone
                 ELSE IF rt.nu > 0 /\ rt.nu < MaxRun /\ rt.nr = 0
                      THEN [rt EXCEPT !.nu = @ + 1]
                      ELSE [df |-> df, nu |-> 1, nr |-> 0]
        /\ edit_pre' = IF op = "cell_changed" THEN edit_pre ELSE EmptyFrame
        /\ pre' = Lengths
        /\ clean_pushes' = IF r.ret = "True" THEN 0 ELSE clean_pushes
        /\ UNCHANGED <<loaded, call, window>>

\* MainWindow._handle_redo
Redo ==
    \E r \in redo(Self) :
        /\ SetEngine(r.st)
        /\ op' = "redo"
        /\ ret' = r.ret
        /\ rt' = IF r.ret = "True" /\ rt.nr < rt.nu
                 THEN [rt EXCEPT !.nr = @ + 1]
                 ELSE RtNone
        /\ edit_pre' = EmptyFrame
        /\ pre' = Lengths
        /\ clean_pushes' = IF r.ret = "True" THEN 0 ELSE clean_pushes
        /\ UNCHANGED <<loaded, call, window>>

\* MainWindow._handle_save
HandleSave ==
    \E written \in BOOLEAN :
        LET r == handle_save(Self, written)
        IN  /\ SetEngine(r.st)
            /\ op' = "save"
            /\ ret' = r.ret
            /\ edit_pre' = EmptyFrame
            /\ rt' = RtNone
            /\ pre' = Lengths
            /\ clean_pushes' = IF r.ret # "True" THEN clean_pushes
                               ELSE IF clean_pushes < 2 THEN clean_pushes + 1 ELSE 2
            /\ UNCHANGED <<loaded, call, window>>

\* MainWindow._show_filter_dialog, accepted
ShowFilterDialog(choices) ==
    /\ ~empty(df)
    /\ \E a \in choices :
          /\ a.filter_col = "" \/ HasColumn(df, a.filter_col)
          /\ a.sort_col = "" \/ HasColumn(df, a.sort_col)
          /\ \E x \in apply_filters_and_sort(Self, a) :
                /\ SetEngine(x)
                /\ op' = "apply_filters_and_sort"
                /\ ret' = "None"
                /\ edit_pre' = EmptyFrame
                /\ rt' = RtNone
                /\ pre' = Lengths
                /\ UNCHANGED <<loaded, clean_pushes, call, window>>

Next ==
    \/ Load(Sheets)
    \/ CellChanged(EditTexts, MaxDepth)
    \/ Undo
    \/ Redo
    \/ HandleSave
    \/ ShowFilterDialog(DialogChoices)

Spec == Init /\ [][Next]_vars

\* Deep histories: one cell, two texts, edits until the undo stack is full
\* and evicts.
EvictTexts == {<<"a">>, <<"b">>}

NextEvict ==
    \/ Load({SheetOne})
    \/ CellChanged(EvictTexts, max_undo_steps + 1)
    \/ Undo
    \/ Redo
    \/ HandleSave

SpecEvict == Init /\ [][NextEvict]_vars

(***************************************************************************)
(* The view: the engine's own calls, with omitted, empty and blank         *)
(* arguments, on sheets with text, numbers, blanks and repeated values.    *)
(***************************************************************************)
SheetMixed ==
    [columns |-> <<"A", "B">>, index |-> <<0, 1, 2, 3>>,
     data |-> << <<INT(10), STR(<<"1", "0">>)>>,
                 <<INT(2), NaN>>,
                 <<INT(10), STR(<<"7">>)>>,
                 <<INT(3), STR(<<"x">>)>> >>]

\* Numbers only: an int64 and a float64 column
SheetNum ==
    [columns |-> <<"A", "B">>, index |-> <<0, 1>>,
     data |-> << <<INT(2), NaN>>,
                 <<INT(10), FLT(1)>> >>]

\* A header row and nothing else
SheetBlank == [columns |-> <<"A">>, index |-> <<>>, data |-> <<>>]

ViewSheets == {SheetMixed, SheetNum, SheetBlank}

FilterCols == {"", "B", "Z"}
FilterTexts == {<<>>, <<" ">>, <<" ", "N">>, <<"0">>}
SortCols == {"", "A", "B", "Z"}
SortTypes == {"", "az", "za", "num_asc", "num_desc", "xx"}

Supplied(a) ==
    {k \in {"filter_col", "filter_text", "sort_col", "sort_type"} : a[k] # NoArgs[k]}

\* The calls of apply_filters_and_sort followed: no argument, one argument,
\* and some calls with several.
ViewArgs ==
    {a \in [filter_col : FilterCols \cup {NONE}, filter_text : FilterTexts \cup {NoText},
            sort_col : SortCols \cup {NONE}, sort_type : SortTypes \cup {NONE}] :
        Cardinality(Supplied(a)) <= 1}
    \cup {[filter_col |-> "B", filter_text |-> <<"0">>, sort_col |-> NONE, sort_type |-> NONE],
          [filter_col |-> NONE, filter_text |-> NoText, sort_col |-> "A", sort_type |-> "num_desc"],
          [filter_col |-> "", filter_text |-> <<" ", "N">>, sort_col |-> "B", sort_type |-> "az"]}

\* AppLogic.load_new_sheet
ViewLoad ==
    \E dataframe \in ViewSheets : \E x \in load_new_sheet(Self, dataframe) :
        /\ SetEngine(x)
        /\ op' = "load_new_sheet"
        /\ ret' = "None"
        /\ loaded' = TRUE
        /\ edit_pre' = EmptyFrame
        /\ rt' = RtNone
        /\ pre' = Lengths
        /\ clean_pushes' = 1
        /\ call' = [args |-> NoArgs, was |-> Active]
        /\ UNCHANGED window

\* AppLogic.apply_filters_and_sort
ViewApply ==
    \E a \in ViewArgs : \E x \in apply_filters_and_sort(Self, a) :
        /\ SetEngine(x)
        /\ op' = "apply_filters_and_sort"
        /\ ret' = "None"
        /\ edit_pre' = EmptyFrame
        /\ rt' = RtNone
        /\ pre' = Lengths
        /\ call' = [args |-> a, was |-> Active]
        /\ UNCHANGED <<loaded, clean_pushes, window>>

\* AppLogic.reset_filters_and_sort
ViewReset ==
    \E x \in reset_filters_and_sort(Self) :
        /\ SetEngine(x)
        /\ op' = "reset_filters_and_sort"
        /\ ret' = "None"
        /\ edit_pre' = EmptyFrame
        /\ rt' = RtNone
        /\ pre' = Lengths
        /\ call' = [args |-> EmptyArgs, was |-> Active]
        /\ UNCHANGED <<loaded, clean_pushes, window>>

NextView ==
    \/ ViewLoad
    \/ ViewApply
    \/ ViewReset

SpecView == Init /\ [][NextView]_vars

(***************************************************************************)
(* The window on one sheet: loads that fail, and cell edits followed by    *)
(* row, column and text, under the filter dialog, undo and redo.           *)
(***************************************************************************)
WindowTexts == {<<"7">>}

\* What the filter dialog hands over here: a numeric sort without a filter,
\* a filter with a text sort, and neither
WindowChoices ==
    {[filter_col |-> "", filter_text |-> <<>>, sort_col |-> "A", sort_type |-> "num_desc"],
     [filter_col |-> "A", filter_text |-> <<"7">>, sort_col |-> "B", sort_type |-> "az"],
     [filter_col |-> "", filter_text |-> <<>>, sort_col |-> "", sort_type |-> "az"]}

\* MainWindow._load_excel_file, _handle_sheet_change and
\* _load_current_sheet_data when the storage layer fails
LoadFails ==
    \E step \in FailingSteps : \E r \in load_failure(Self, step) :
        /\ SetEngine(r.st)
        /\ op' = "load_failed"
        /\ ret' = r.ret
        /\ edit_pre' = EmptyFrame
        /\ rt' = RtNone
        /\ pre' = Lengths
        /\ UNCHANGED <<loaded, clean_pushes, call, window>>

\* MainWindow._handle_cell_changed(row, column)
WindowEdit ==
    /\ Len(undo_stack) < MaxDepth
    /\ \E row \in 0..NRows(current_view_df) :
       \E column \in 0..(NCols(current_view_df) - 1) :
       \E new_text \in WindowTexts :
          /\ SetEngine(handle_cell_changed(Self, row, column, new_text))
          /\ op' = IF row < NRows(current_view_df) THEN "cell_changed" ELSE "cell_dropped"
          /\ ret' = "None"
          /\ edit' = [row |-> row, column |-> column, text |-> new_text]
          /\ edit_pre' = EmptyFrame
          /\ rt' = RtNone
          /\ pre' = Lengths
          /\ clean_pushes' = IF row < NRows(current_view_df) THEN 0 ELSE clean_pushes
          /\ UNCHANGED <<loaded, call, settings, to_json_raises, paths>>

NextWindow ==
    \/ Load({SheetAB})
    \/ LoadFails
    \/ WindowEdit
    \/ Undo
    \/ Redo
    \/ ShowFilterDialog(WindowChoices)

SpecWindow == Init /\ [][NextWindow]_vars

(***************************************************************************)
(* The history when DataFrame.to_json can raise (out of memory, a value    *)
(* the encoder refuses): the environment decides, between two handlers,    *)
(* whether the next serialisation raises.                                  *)
(***************************************************************************)
ToJsonFails ==
    /\ to_json_raises' = ~to_json_raises
    /\ op' = "environment"
    /\ ret' = "None"
    /\ UNCHANGED <<engine, loaded, edit_pre, rt, pre, clean_pushes, call,
                   settings, edit, paths>>

NextSerial ==
    \/ Load({SheetOne})
    \/ CellChanged(EditTexts, MaxDepth)
    \/ Undo
    \/ Redo
    \/ HandleSave
    \/ ToJsonFails

SpecSerial == Init /\ [][NextSerial]_vars

(***************************************************************************)
(* The list of recent files: files are opened one after the other, each a  *)
(* path not seen before or one opened earlier.  Paths are numbered in the  *)
(* order of their first use.  Opening a known path, a load that fails, a   *)
(* settings file that cannot be written and a removal in the dialog are    *)
(* detours; the number of detours followed is bounded.                     *)
(***************************************************************************)
MaxPaths == 11
MaxDetours == 2

\* MainWindow._load_excel_file(file_path): step tells how far the storage
\* layer lets the load go
LoadExcelFile ==
    \E file_path \in {1, paths.seen - 1, paths.seen + 1} :
    \E step \in {"loaded"} \cup FailingSteps :
    \E written \in BOOLEAN :
       LET detour == file_path <= paths.seen \/ step # "loaded" \/ ~written
           listed == step \in {"loaded", "load_sheet"}
       IN  /\ file_path \in 1..MaxPaths
           /\ detour => paths.detours < MaxDetours
           /\ ~listed => written
           /\ settings' = IF listed THEN update_recent_files(settings, file_path, written)
                          ELSE settings
           /\ IF step = "loaded"
              THEN \E x \in load_new_sheet(Self, SheetOne) :
                      SetEngine(x) /\ ret' = "None"
              ELSE \E r \in load_failure(Self, step) :
                      SetEngine(r.st) /\ ret' = r.ret
           /\ op' = IF step = "loaded" THEN "file_loaded" ELSE "load_failed"
           /\ loaded' = (loaded \/ step = "loaded")
           /\ paths' = [seen |-> IF file_path > paths.seen THEN file_path ELSE paths.seen,
                        detours |-> IF detour THEN paths.detours + 1 ELSE paths.detours,
                        last |-> IF step = "loaded" THEN file_path ELSE paths.last]
           /\ edit_pre' = EmptyFrame
           /\ rt' = RtNone
           /\ pre' = Lengths
           /\ clean_pushes' = IF step = "loaded" THEN 1 ELSE clean_pushes
           /\ UNCHANGED <<call, to_json_raises, edit>>

\* MainWindow._show_recent_files_dialog: an entry is removed from the list
\* and the dialog is left through "open a new file", with the file chooser
\* cancelled
ShowRecentFilesDialog ==
    /\ paths.detours < MaxDetours
    /\ settings.recent_excel_files # <<>>
    /\ \E at \in {1, Len(settings.recent_excel_files)} : \E written \in BOOLEAN :
          settings' = save_settings(
              [settings EXCEPT !.recent_excel_files =
                   Remove(@, settings.recent_excel_files[at])],
              written)
    /\ paths' = [paths EXCEPT !.detours = @ + 1]
    /\ op' = "recent_files_dialog"
    /\ ret' = "None"
    /\ UNCHANGED <<engine, loaded, edit_pre, rt, pre, clean_pushes, call,
                   to_json_raises, edit>>

NextFiles ==
    \/ LoadExcelFile
    \/ ShowRecentFilesDialog

SpecFiles == Init /\ [][NextFiles]_vars

(***************************************************************************)
(* Properties                                                              *)
(***************************************************************************)
criteria == <<active_filter_col, active_filter_text, active_sort_col, active_sort_type>>

\* The step ran push_state() on the state it started in: a cell edit pushes
\* before it writes, a save pushes after the sheet is written.
PushStep == op' = "cell_changed" \/ (op' = "save" /\ ret' = "True")

\* push_state() on the current state appends an entry
PushAppends == undo_stack = <<>> \/ Last(undo_stack) # to_json(df)

\* C1: the undo stack never holds more than max_undo_steps entries, and a
\* push onto a full undo stack removes exactly the oldest entry: the other
\* entries keep their order and the new entry is on top.
C1_UndoStackBounded ==
    /\ [](Len(undo_stack) <= max_undo_steps)
    /\ [][(PushStep /\ PushAppends /\ Len(undo_stack) = max_undo_steps)
            => undo_stack' = Append(Tail(undo_stack), to_json(df))]_vars

\* A push evicted: the stack is full and its oldest entry is no longer the
\* token of the loaded sheet.
C1_Witness ==
    /\ op = "cell_changed"
    /\ pre.nu = max_undo_steps
    /\ Len(undo_stack) = max_undo_steps
    /\ undo_stack[1] # to_json(SheetOne)

\* C2: a cell edit (push_state() then the write) is undoable: the undo()
\* that follows it returns True and restores df to its content before the
\* edit.
C2_EditIsUndoable ==
    (op = "undo" /\ edit_pre # EmptyFrame) => (ret = "True" /\ df = edit_pre)

\* C3: N successful undo() calls followed at once by N redo() calls leave df
\* as it was before the first undo().
C3_UndoRedoRoundTrip ==
    (rt.nu > 0 /\ rt.nr = rt.nu) => df = rt.df

\* C4: a push_state() that appends leaves the redo stack empty; one that is
\* suppressed leaves the redo stack as it was.
C4_PushClearsRedo ==
    [][/\ PushStep =>
            IF PushAppends THEN redo_stack' = <<>> ELSE redo_stack' = redo_stack
       /\ op' = "load_new_sheet" => redo_stack' = <<>>]_vars

\* A save after an undo(): its push appended and emptied a redo stack that
\* held an entry.
C4_Witness ==
    /\ op = "save"
    /\ ret = "True"
    /\ pre.nr > 0
    /\ Len(undo_stack) = pre.nu + 1
    /\ redo_stack = <<>>

\* C5: a push_state() that follows a push_state() with df unchanged in
\* between leaves both stacks as they were.
C5_PushIdempotent ==
    [][(clean_pushes >= 1 /\ op' = "save" /\ ret' = "True")
         => (undo_stack' = undo_stack /\ redo_stack' = redo_stack)]_vars

\* Two saves in a row
C5_Witness ==
    /\ op = "save"
    /\ ret = "True"
    /\ clean_pushes = 2
    /\ Len(undo_stack) > 1

\* C6: with more than one undo entry, undo() moves the top undo entry onto
\* the redo stack, sets df to the content of the new top, recomputes the
\* view under the unchanged criteria and returns True.
C6_UndoMovesTop ==
    [][(op' = "undo" /\ Len(undo_stack) > 1) =>
          /\ undo_stack' = Front(undo_stack)
          /\ redo_stack' = Append(redo_stack, Last(undo_stack))
          /\ df' = read_json(Last(undo_stack'))
          /\ criteria' = criteria
          /\ current_view_df' \in Views(df', active_filter_col, active_filter_text,
                                        active_sort_col, active_sort_type)
          /\ ret' = "True"]_vars

\* An undo() that took effect under an active filter and sort
C6_Witness ==
    /\ op = "undo"
    /\ ret = "True"
    /\ redo_stack # <<>>
    /\ active_sort_col = "A"
    /\ df # read_json(Last(redo_stack))

\* C7: with a non-empty redo stack, redo() moves the top redo entry onto the
\* undo stack, sets df to that entry's content, recomputes the view under
\* the unchanged criteria and returns True.
C7_RedoMovesTop ==
    [][(op' = "redo" /\ redo_stack # <<>>) =>
          /\ redo_stack' = Front(redo_stack)
          /\ undo_stack' = Append(undo_stack, Last(redo_stack))
          /\ df' = read_json(Last(redo_stack))
          /\ criteria' = criteria
          /\ current_view_df' \in Views(df', active_filter_col, active_filter_text,
                                        active_sort_col, active_sort_type)
          /\ ret' = "True"]_vars

\* A redo() that took effect and changed the view
C7_Witness ==
    /\ op = "redo"
    /\ ret = "True"
    /\ Len(undo_stack) = pre.nu + 1
    /\ Len(redo_stack) = pre.nr - 1
    /\ df = read_json(Last(undo_stack))
    /\ active_sort_col = "A"

\* C8: undo() with at most one undo entry and redo() with an empty redo
\* stack return False and change nothing of the engine.
C8_ExhaustionIsNoOp ==
    [][((op' = "undo" /\ Len(undo_stack) <= 1) \/ (op' = "redo" /\ redo_stack = <<>>))
         => (ret' = "False" /\ UNCHANGED engine)]_vars

\* undo() refused at the oldest state while a redo entry waits
C8_Witness ==
    /\ op = "undo"
    /\ ret = "False"
    /\ Len(undo_stack) = 1
    /\ redo_stack # <<>>

C10_LoadResetsHistory ==
    op = "load_new_sheet" =>
        /\ df \in Sheets
        /\ undo_stack = <<to_json(df)>>
        /\ redo_stack = <<>>

\* A load in the middle of an undo run, with entries on both stacks
C10_Witness ==
    /\ op = "load_new_sheet"
    /\ pre.nu > 0
    /\ pre.nr > 0
    /\ df = SheetAB

\* The view has the columns, the row labels and the rows of df, in df's order.
ViewIsDataset ==
    /\ current_view_df.columns = df.columns
    /\ current_view_df.index = df.index
    /\ current_view_df.data = df.data

\* C11: after load_new_sheet, whatever the criteria were, the filter column,
\* the sort column and the sort mode are None and the filter text is empty,
\* and the view has exactly the rows and columns of the loaded dataset in
\* their order.
C11_LoadResetsCriteria ==
    op = "load_new_sheet" =>
        /\ df \in ViewSheets
        /\ criteria = <<NONE, <<>>, NONE, NONE>>
        /\ ViewIsDataset

\* A load that found a filter text and a sort column set
C11_Witness ==
    /\ op = "load_new_sheet"
    /\ call.was
    /\ df = SheetMixed

\* C12: after every operation the view is a result of applying the current
\* criteria to the current df; a cell edit shows in the view.
C12_ViewIsCurrent ==
    current_view_df \in Views(df, active_filter_col, active_filter_text,
                              active_sort_col, active_sort_type)

\* C13: after reset_filters_and_sort(), whatever the criteria were, all four
\* criteria are empty and the view has exactly df's columns, rows, cell
\* values and row order.
C13_ResetGivesDataset ==
    op = "reset_filters_and_sort" =>
        /\ criteria = <<"", <<>>, "", "">>
        /\ ViewIsDataset

\* A reset that found a filter text and a sort column set
C13_Witness ==
    /\ op = "reset_filters_and_sort"
    /\ call.was
    /\ df = SheetMixed
    /\ ViewIsDataset

\* The position in d of the row labelled label
RowOf(d, label) == CHOOSE i \in 1..NRows(d) : d.index[i] = label

\* The rows of the view come in the order they have in d.
InDatasetOrder(view, d) ==
    \A i, j \in 1..NRows(view) :
        i < j => RowOf(d, view.index[i]) < RowOf(d, view.index[j])

\* C14: apply_filters_and_sort is a partial update.  A criterion whose
\* argument is None keeps its value and a criterion whose argument is
\* supplied takes it.  The empty string clears: an empty filter text removes
\* no row, an empty sort column leaves the rows in df's order, and an empty
\* filter column or sort mode gives the view the criterion gives when it was
\* never set.
C14_PartialUpdate ==
    [][op' = "apply_filters_and_sort" =>
        LET a == call'.args
        IN  /\ active_filter_col' =
                  IF a.filter_col = NONE THEN active_filter_col ELSE a.filter_col
            /\ active_filter_text' =
                  IF a.filter_text = NoText THEN active_filter_text ELSE a.filter_text
            /\ active_sort_col' =
                  IF a.sort_col = NONE THEN active_sort_col ELSE a.sort_col
            /\ active_sort_type' =
                  IF a.sort_type = NONE THEN active_sort_type ELSE a.sort_type
            /\ a.filter_text = <<>> => NRows(current_view_df') = NRows(df')
            /\ a.sort_col = "" => InDatasetOrder(current_view_df', df')
            /\ a.filter_col = "" =>
                  current_view_df' \in Views(df', NONE, active_filter_text',
                                             active_sort_col', active_sort_type')
            /\ a.sort_type = "" =>
                  current_view_df' \in Views(df', active_filter_col', active_filter_text',
                                             active_sort_col', NONE)]_vars

\* A call that cleared the filter text and left the other three criteria
\* out: the filter column and the sort stay as they were set.
C14_Witness ==
    /\ op = "apply_filters_and_sort"
    /\ call.args = [NoArgs EXCEPT !.filter_text = <<>>]
    /\ call.was
    /\ active_filter_col = "B"
    /\ active_sort_col = "A"
    /\ active_sort_type = "num_desc"
    /\ df = SheetMixed
    /\ ~InDatasetOrder(current_view_df, df)

\* The labels of the rows of the view
ViewLabels == {current_view_df.index[i] : i \in 1..NRows(current_view_df)}

\* The trimmed, lower-cased filter text
SearchTerm == Lower(Strip(active_filter_text))

\* The filter column is set and names a column of df.
FilterColumnUsed == Truthy(active_filter_col) /\ HasColumn(df, active_filter_col)

\* C15: with a filter text that is not blank and a filter column of df, the
\* view holds exactly the rows of df whose value in that column is present
\* and, as a lower-cased string, contains the trimmed lower-cased filter
\* text; a row whose value there is missing is never kept.
C15_ColumnFilter ==
    (op # "init" /\ SearchTerm # <<>> /\ FilterColumnUsed) =>
        ViewLabels =
            {df.index[i] : i \in
                {r \in 1..NRows(df) :
                    LET c == df.data[r][ColPos(df, active_filter_col)]
                    IN  ~IsMissing(c) /\ Contains(Lower(astype_str(c)), SearchTerm)}}

\* C16: with a filter text that is not blank and no filter column, or one
\* that df lacks, the view holds exactly the rows of df in which the
\* lower-cased string value of at least one column contains the filter text.
C16_AnyColumnFilter ==
    (op # "init" /\ SearchTerm # <<>> /\ ~FilterColumnUsed) =>
        ViewLabels =
            {df.index[i] : i \in
                {r \in 1..NRows(df) :
                    \E j \in 1..NCols(df) :
                        Contains(Lower(astype_str(df.data[r][j])), SearchTerm)}}

\* The sort column is set and names a column of df.
SortColumnUsed == Truthy(active_sort_col) /\ HasColumn(df, active_sort_col)

\* C17: with a filter text that is empty or blank the view holds every row
\* of df, whatever the filter column; with no sort column in use it holds
\* them in df's order.
C17_BlankTextKeepsRows ==
    SearchTerm = <<>> =>
        /\ NRows(current_view_df) = NRows(df)
        /\ ViewLabels = {df.index[i] : i \in 1..NRows(df)}
        /\ ~SortColumnUsed => ViewIsDataset

\* A blank filter text with a filter column set and no sort
C17_Witness ==
    /\ op = "apply_filters_and_sort"
    /\ active_filter_text = <<" ">>
    /\ active_filter_col = "B"
    /\ ~SortColumnUsed
    /\ df = SheetMixed
    /\ ViewIsDataset

\* The cell df holds in the sort column for row i of the view
SortCell(i) ==
    df.data[RowOf(df, current_view_df.index[i])][ColPos(df, active_sort_col)]

\* C18: under a numeric sort mode the rows whose sort-column value converts
\* to a number come ordered by that number, ascending for num_asc and
\* descending for num_desc, and every row whose value does not convert comes
\* after all of them in both directions.
C18_NumericSort ==
    (op # "init" /\ SortColumnUsed /\ active_sort_type \in {"num_asc", "num_desc"}) =>
        \A i, j \in 1..NRows(current_view_df) :
            i < j =>
                LET a == NumericOf(SortCell(i))
                    b == NumericOf(SortCell(j))
                IN  /\ a.nan => b.nan
                    /\ (~a.nan /\ ~b.nan) =>
                          IF active_sort_type = "num_asc" THEN a.n <= b.n ELSE a.n >= b.n

\* A descending numeric sort of the texts "10", blank, "7", "x": 10, 7, then
\* the blank and "x"
C18_Witness ==
    /\ op = "apply_filters_and_sort"
    /\ df = SheetMixed
    /\ active_sort_col = "B"
    /\ active_sort_type = "num_desc"
    /\ current_view_df.index = <<0, 2, 1, 3>>

\* C19: under a text sort mode the rows come ordered by the lower-cased
\* string form of the sort-column value, ascending for az and descending for
\* za, and every row whose value is missing comes after all rows with a
\* present value in both directions.
C19_TextSort ==
    (op # "init" /\ SortColumnUsed /\ active_sort_type \in {"az", "za"}) =>
        \A i, j \in 1..NRows(current_view_df) :
            i < j =>
                LET a == SortCell(i)
                    b == SortCell(j)
                IN  /\ IsMissing(a) => IsMissing(b)
                    /\ (~IsMissing(a) /\ ~IsMissing(b)) =>
                          IF active_sort_type = "az"
                          THEN ~StrLess(Lower(astype_str(b)), Lower(astype_str(a)))
                          ELSE ~StrLess(Lower(astype_str(a)), Lower(astype_str(b)))

\* Rows i and j of the view have equal sort keys: the same number, or both
\* no number, under a numeric mode; the same lower-cased string otherwise.
EqualKeys(i, j) ==
    IF active_sort_type \in {"num_asc", "num_desc"}
    THEN LET a == NumericOf(SortCell(i))
             b == NumericOf(SortCell(j))
         IN  a.nan = b.nan /\ (a.nan \/ a.n = b.n)
    ELSE Lower(astype_str(SortCell(i))) = Lower(astype_str(SortCell(j)))

C22_FailedPushIsSwallowed ==
    [][(to_json_raises /\ op' = "save" /\ ~empty(df))
          => /\ UNCHANGED <<df, undo_stack, redo_stack>>
             /\ ret' \in {"True", "False"}]_vars

\* A save whose push_state raised, with a redo entry the push would have
\* cleared and a dataset the push would have appended
C22_Witness ==
    /\ to_json_raises
    /\ op = "save"
    /\ ret = "True"
    /\ redo_stack # <<>>
    /\ undo_stack # <<>>
    /\ Last(undo_stack) # to_json(df)

\* Two cells hold the same value: both missing, the same text, or the same
\* number
SameValue(a, b) ==
    \/ IsMissing(a) /\ IsMissing(b)
    \/ a = b
    \/ a.k \in {"int", "float"} /\ b.k \in {"int", "float"} /\ a.n = b.n

\* C23: restoring the token of df gives a dataset with the columns, the row
\* labels and the cell values of df (a missing value for a missing value),
\* and serialising the restored dataset gives the same token again.
C23_LosslessHistory ==
    LET restored == read_json(to_json(df))
    IN  /\ restored.columns = df.columns
        /\ restored.index = df.index
        /\ \A i \in 1..NRows(df) : \A j \in 1..NCols(df) :
              SameValue(restored.data[i][j], df.data[i][j])
        /\ to_json(restored) = to_json(df)

\* The rows of df that carry the label of view row r (r counts from 1)
CanonicalRows(r) ==
    {i \in 1..NRows(df) : df.index[i] = current_view_df.index[r]}

\* C24: every row of the view carries the label of exactly one row of df, and
\* an edit at view row r and column c writes the typed text into the cell of
\* that row of df in column c and changes no other cell, no label and no
\* column, whatever filter and sort are active and whatever undo and redo
\* came before.
C24_EditHitsDisplayedRow ==
    [][op' = "cell_changed" =>
          /\ \A r \in 1..NRows(current_view_df) : Cardinality(CanonicalRows(r)) = 1
          /\ df'.columns = df.columns
          /\ df'.index = df.index
          /\ \A i \in 1..NRows(df) : \A j \in 1..NCols(df) :
                df'.data[i][j] =
                    IF i \in CanonicalRows(edit'.row + 1) /\ j = edit'.column + 1
                    THEN STR(edit'.text)
                    ELSE df.data[i][j]]_vars

\* An edit, with an entry pushed before it, at a view row that a sort or a
\* filter moved away from its position in df
C24_Witness ==
    /\ op = "cell_changed"
    /\ active_sort_col # NONE
    /\ redo_stack = <<>>
    /\ Len(undo_stack) > 1
    /\ current_view_df.index[edit.row + 1] # df.index[edit.row + 1]
    /\ df.data[edit.row + 1] # current_view_df.data[edit.row + 1]

\* A list of at most RecentCap paths, none of them twice
CappedNoRepeat(list) ==
    /\ Len(list) <= RecentCap
    /\ \A i, j \in 1..Len(list) : list[i] = list[j] => i = j

\* C25: the list of recent files, in the settings and in app_settings.json,
\* has at most 10 entries and no path twice, and after a load that succeeded
\* the loaded path is the first entry of the list the settings hold (the
\* list every successful write of app_settings.json stores).
C25_RecentFiles ==
    /\ CappedNoRepeat(settings.recent_excel_files)
    /\ CappedNoRepeat(settings.file)
    /\ op = "file_loaded" =>
          /\ settings.recent_excel_files # <<>>
          /\ settings.recent_excel_files[1] = paths.last

\* A path opened earlier is opened again after more than RecentCap paths,
\* with the list full and written to app_settings.json
C25_Witness ==
    /\ op = "file_loaded"
    /\ paths.seen > RecentCap
    /\ paths.last < paths.seen
    /\ Len(settings.recent_excel_files) = RecentCap
    /\ settings.file = settings.recent_excel_files

\* C26: every row of the view holds, in every column, the value its row of
\* df holds, in every sort mode.
C26_SortOnlyReorders ==
    \A i \in 1..NRows(current_view_df) : \A j \in 1..NCols(df) :
        SameValue(current_view_df.data[i][j],
                  df.data[RowOf(df, current_view_df.index[i])][j])

\* C27: a cell edit at a row index past the last row of the view is dropped:
\* df, the undo stack and the redo stack are what they were, and the handler
\* returns without an exception.
C27_EditOutsideViewDropped ==
    [][op' = "cell_dropped" =>
          /\ UNCHANGED <<df, undo_stack, redo_stack>>
          /\ ret' = "None"]_vars

\* An edit dropped under a filter that hides rows of df, with unsaved changes
\* a checkpoint would have recorded
C27_Witness ==
    /\ op = "cell_dropped"
    /\ NRows(current_view_df) < NRows(df)
    /\ undo_stack # <<>>
    /\ Last(undo_stack) # to_json(df)

\* C28: apply_filters_and_sort and reset_filters_and_sort, under every
\* combination of criteria, leave df (its cell values and row order) and both
\* stacks as they were.
C28_RecomputeKeepsDataset ==
    [][op' \in {"apply_filters_and_sort", "reset_filters_and_sort"} =>
          UNCHANGED <<df, undo_stack, redo_stack>>]_vars

\* A numeric sort without a filter wrote converted values into the sort
\* column of its working copy: the view holds a value df does not
C28_Witness ==
    /\ op = "apply_filters_and_sort"
    /\ SearchTerm = <<>>
    /\ SortColumnUsed
    /\ active_sort_type \in {"num_asc", "num_desc"}
    /\ undo_stack # <<>>
    /\ \E i \in 1..NRows(current_view_df) :
          ~SameValue(current_view_df.data[i][ColPos(df, active_sort_col)], SortCell(i))

\* The lower-cased string form of the sort-column value of view row i
TextKey(i) == Lower(astype_str(SortCell(i)))

\* C29: with no sort column set, or one that is not a column of df, the view
\* is the rows that pass the filter in df's order; with a sort column of df
\* and a sort mode that is unset or none of az, za, num_asc, num_desc, the
\* view holds those rows ordered ascending by the lower-cased string form of
\* the sort-column value, with their values unchanged.
C29_SortFallbacks ==
    LET passed == FilterStep(df, active_filter_col, active_filter_text)
    IN  ~empty(df) =>
          /\ ~SortColumnUsed => current_view_df = passed
          /\ (SortColumnUsed
                 /\ active_sort_type \notin {"az", "za", "num_asc", "num_desc"}) =>
                /\ ViewLabels = {passed.index[i] : i \in 1..NRows(passed)}
                /\ NRows(current_view_df) = NRows(passed)
                /\ \A i \in 1..NRows(current_view_df) :
                      current_view_df.data[i] =
                          df.data[RowOf(df, current_view_df.index[i])]
                /\ \A i, j \in 1..NRows(current_view_df) :
                      i < j => ~StrLess(TextKey(j), TextKey(i))

\* A sort mode that is none of the four put the rows of a text column in
\* another order than df's
C29_Witness ==
    /\ op = "apply_filters_and_sort"
    /\ SortColumnUsed
    /\ active_sort_type = "xx"
    /\ NRows(current_view_df) > 2
    /\ ~InDatasetOrder(current_view_df, df)

\* C30: the two stacks together never hold more than max_undo_steps
\* entries, and undo and redo keep the number of entries the two stacks hold
\* together (they move one entry from one stack to the other), so a redo
\* never takes the undo stack past the maximum.
C30_StacksTotalBounded ==
    /\ [](Len(undo_stack) + Len(redo_stack) <= max_undo_steps)
    /\ [][op' \in {"undo", "redo"} =>
             Len(undo_stack') + Len(redo_stack') = Len(undo_stack) + Len(redo_stack)]_vars

\* A redo, with further entries left to redo, on stacks that together hold
\* max_undo_steps entries
C30_Witness ==
    /\ op = "redo"
    /\ ret = "True"
    /\ redo_stack # <<>>
    /\ Len(undo_stack) + Len(redo_stack) = max_undo_steps

\* list[::-1]
Reverse(list) == [i \in 1..Len(list) |-> list[Len(list) + 1 - i]]

\* The linear history: the undo stack followed by the redo stack, most
\* recently undone entry first
History == undo_stack \o Reverse(redo_stack)

\* C31: no two neighbours of the linear history are the same token.
C31_NoAdjacentDuplicates ==
    \A i \in 1..(Len(History) - 1) : History[i] # History[i + 1]

\* A save after an undo whose push found df serialised on top of the undo
\* stack and recorded nothing, with entries on both stacks
C31_Witness ==
    /\ op = "save"
    /\ ret = "True"
    /\ redo_stack # <<>>
    /\ Len(undo_stack) > 1
    /\ Len(undo_stack) = pre.nu
    /\ Last(undo_stack) = to_json(df)

\* C32: undo(), redo() and push_state() (run by a cell edit and by a save)
\* leave the four criteria as they were, and the view after an undo or a redo
\* that restored a dataset is a view of that dataset under those criteria.
C32_HistoryKeepsCriteria ==
    [][op' \in {"undo", "redo", "save", "cell_changed", "cell_dropped"} =>
          /\ UNCHANGED criteria
          /\ (op' \in {"undo", "redo"} /\ ret' = "True") =>
                current_view_df' \in Views(df', active_filter_col, active_filter_text,
                                           active_sort_col, active_sort_type)]_vars

\* An undo under a filter and a sort: the view of the restored dataset holds
\* fewer rows than the dataset
C32_Witness ==
    /\ op = "undo"
    /\ ret = "True"
    /\ SearchTerm # <<>>
    /\ FilterColumnUsed
    /\ SortColumnUsed
    /\ current_view_df.index # <<>>
    /\ NRows(current_view_df) < NRows(df)

\* C33: a save that returns False (df is empty, no sheet is selected, or the
\* sheet could not be written) leaves df and both stacks as they were; a save
\* of an empty df returns False; a save that returns True leaves df as it was
\* and the stacks as push_state() leaves them.
C33_SavePushesOnSuccess ==
    [][op' = "save" =>
          /\ ret' \in {"True", "False"}
          /\ df' = df
          /\ empty(df) => ret' = "False"
          /\ ret' = "False" => UNCHANGED <<undo_stack, redo_stack>>
          /\ ret' = "True" =>
                /\ undo_stack' = push_state(Self).undo_stack
                /\ redo_stack' = push_state(Self).redo_stack]_vars

\* A save whose write failed, on a dataset with unsaved changes and entries
\* to redo: a push would have appended an entry and emptied the redo stack
C33_Witness ==
    /\ op = "save"
    /\ ret = "False"
    /\ ~empty(df)
    /\ redo_stack # <<>>
    /\ Last(undo_stack) # to_json(df)

====
